---------------------------- MODULE Spec2Model ----------------------------
(***************************************************************************)
(* A model of the Gaia x Envio agent (src/index.js): the polling loop that *)
(* tracks the watermark lastScannedBlock, queries a block range, decodes   *)
(* and filters the logs, selects the largest record and dispatches it.     *)
(*                                                                         *)
(* JavaScript runs one callback at a time, and a callback gives up control *)
(* only at an await.  Each action below is therefore the code that runs    *)
(* between two suspension points of an async function.                     *)
(***************************************************************************)
EXTENDS Integers, Sequences, FiniteSets, TLC

(***************************************************************************)
(* Arbitrary-precision integers.  The amounts of the source are BigInt     *)
(* (uint256 / int256) and reach 20 * 10^18, beyond the integers of the     *)
(* model checker, so a magnitude is a little-endian sequence of limbs in   *)
(* radix Base with no leading zero limb (zero is the empty sequence), and  *)
(* a BigInt is a sign and a magnitude.                                     *)
(***************************************************************************)
Base == 10 * 10 * 10

RECURSIVE MagOf(_)
MagOf(n) == IF n = 0 THEN << >> ELSE <<n % Base>> \o MagOf(n \div Base)

RECURSIVE MagNorm(_)
MagNorm(m) ==
    IF m = << >> THEN << >>
    ELSE IF m[Len(m)] = 0 THEN MagNorm(SubSeq(m, 1, Len(m) - 1))
    ELSE m

MagGE(a, b) ==
    IF Len(a) # Len(b) THEN Len(a) > Len(b)
    ELSE LET differ == {i \in 1..Len(a) : a[i] # b[i]}
         IN  \/ differ = {}
             \/ LET top == CHOOSE i \in differ : \A j \in differ : j <= i
                IN  a[top] > b[top]

MagGT(a, b) == MagGE(a, b) /\ a # b

RECURSIVE MagAddC(_, _, _)
MagAddC(a, b, carry) ==
    IF a = << >> /\ b = << >> THEN (IF carry = 0 THEN << >> ELSE <<carry>>)
    ELSE LET la  == IF a = << >> THEN 0 ELSE a[1]
             lb  == IF b = << >> THEN 0 ELSE b[1]
             sum == la + lb + carry
         IN  <<sum % Base>> \o MagAddC(IF a = << >> THEN a ELSE Tail(a),
                                       IF b = << >> THEN b ELSE Tail(b),
                                       sum \div Base)

MagAdd(a, b) == MagNorm(MagAddC(a, b, 0))

\* a - b for a >= b
RECURSIVE MagSubB(_, _, _)
MagSubB(a, b, borrow) ==
    IF a = << >> THEN << >>
    ELSE LET lb   == IF b = << >> THEN 0 ELSE b[1]
             diff == a[1] - lb - borrow
         IN  <<IF diff < 0 THEN diff + Base ELSE diff>>
                \o MagSubB(Tail(a), IF b = << >> THEN b ELSE Tail(b),
                           IF diff < 0 THEN 1 ELSE 0)

MagSub(a, b) == MagNorm(MagSubB(a, b, 0))

\* a * d for one limb d
RECURSIVE MagMulLimb(_, _, _)
MagMulLimb(a, d, carry) ==
    IF a = << >> THEN (IF carry = 0 THEN << >> ELSE <<carry>>)
    ELSE LET prod == a[1] * d + carry
         IN  <<prod % Base>> \o MagMulLimb(Tail(a), d, prod \div Base)

RECURSIVE MagMul(_, _)
MagMul(a, b) ==
    IF a = << >> \/ b = << >> THEN << >>
    ELSE MagAdd(MagNorm(MagMulLimb(a, b[1], 0)),
                LET high == MagMul(a, Tail(b))
                IN  IF high = << >> THEN << >> ELSE <<0>> \o high)

\* floor(a / d) for a small divisor d
RECURSIVE MagDivR(_, _, _)
MagDivR(a, d, rem) ==
    IF a = << >> THEN << >>
    ELSE LET cur == rem * Base + a[Len(a)]
         IN  MagDivR(SubSeq(a, 1, Len(a) - 1), d, cur % d) \o <<cur \div d>>

MagDiv(a, d) == MagNorm(MagDivR(a, d, 0))

\* a * d for a small factor d
MagTimes(a, d) == MagNorm(MagMulLimb(a, d, 0))

MagOdd(a) == a # << >> /\ a[1] % 2 = 1

BigOf(n) == [neg |-> n < 0, mag |-> MagOf(IF n < 0 THEN 0 - n ELSE n)]

BigZero == BigOf(0)

\* unary minus: -x
BigNeg(x) == IF x.mag = << >> THEN x ELSE [neg |-> ~x.neg, mag |-> x.mag]

BigGE(a, b) ==
    IF a.neg # b.neg THEN b.neg
    ELSE IF a.neg THEN MagGE(b.mag, a.mag)
    ELSE MagGE(a.mag, b.mag)

BigLT(a, b) == ~BigGE(a, b)

BigGT(a, b) == BigGE(a, b) /\ a # b

BigMul(a, b) ==
    LET pm == MagMul(a.mag, b.mag)
    IN  [neg |-> pm # << >> /\ a.neg # b.neg, mag |-> pm]

BigAdd(a, b) ==
    IF a.neg = b.neg THEN [neg |-> a.neg, mag |-> MagAdd(a.mag, b.mag)]
    ELSE IF MagGE(a.mag, b.mag)
         THEN LET dm == MagSub(a.mag, b.mag)
              IN  [neg |-> dm # << >> /\ a.neg, mag |-> dm]
         ELSE [neg |-> b.neg, mag |-> MagSub(b.mag, a.mag)]

(***************************************************************************)
(* IEEE-754 doubles that hold integers.  Number(x) of a BigInt rounds the  *)
(* magnitude to 53 significant bits, ties to even; a double that holds an  *)
(* integer is kept as that integer, a BigInt value.                        *)
(***************************************************************************)
\* 2^53 = 9 007 199 254 740 992
TwoPow53 == <<992, 740, 254, 199, 7, 9>>

\* the doubles from 2^53 on fall into binades [2^(53+j), 2^(54+j)), whose
\* values are the multiples of 2^(j+1); up to 2^73 these are their bounds
BinadeBounds == {MagTimes(TwoPow53, 2^j) : j \in 0..20}

\* the number of low bits of m that do not fit in a 53-bit significand
ExcessBits(m) == Cardinality({bound \in BinadeBounds : MagGE(m, bound)})

Round53(m) ==
    LET nbits  == ExcessBits(m)
        signif == MagDiv(m, 2^nbits)
        low    == MagSub(m, MagTimes(signif, 2^nbits))
        tie    == IF nbits = 0 THEN << >> ELSE MagOf(2^(nbits - 1))
        up     == nbits > 0 /\ (MagGT(low, tie) \/ (low = tie /\ MagOdd(signif)))
    IN  MagTimes(IF up THEN MagAdd(signif, MagOf(1)) ELSE signif, 2^nbits)

\* Number(x) for a BigInt x
NumberOf(x) == [neg |-> x.neg, mag |-> Round53(x.mag)]

\* a * b for two doubles whose product is an integer
FloatMul(a, b) == NumberOf(BigMul(a, b))

\* Math.abs
MathAbs(x) == [neg |-> FALSE, mag |-> x.mag]

(***************************************************************************)
(* The modes (MODES, lines 15-74).  A decoded event is a record with the   *)
(* fields args, transactionHash and blockNumber.  The doubles of a display *)
(* record are kept as exact numerators: amount holds Number(value) for     *)
(* the double Number(value) / 1000000, and |Number(amount1)| for the       *)
(* double |Number(amount1) / 1e18|.  Within one mode the divisor is one    *)
(* positive constant, so comparing the numerators compares the amounts.    *)
(* The string amountStr only feeds the console and the prompt and is left  *)
(* out of the record.                                                      *)
(***************************************************************************)
USDC_WHALE == "USDC_WHALE"

UNISWAP_HIGH_ROLLER == "UNISWAP_HIGH_ROLLER"

\* the literals 1000000000000000000n and 1000000000000000000 (10^18)
Ten18n == BigMul(BigOf(1000000000), BigOf(1000000000))

Ten18 == NumberOf(Ten18n)

\* threshold: 100000 * 1000000
UsdcWhaleThreshold == FloatMul(BigOf(100000), BigOf(1000000))

\* threshold: 10 * 1000000000000000000
HighRollerThreshold == FloatMul(BigOf(10), Ten18)

Threshold(mode) ==
    IF mode = USDC_WHALE THEN UsdcWhaleThreshold ELSE HighRollerThreshold

\* const usdcThreshold = 50000n * 1000000n
usdcThreshold == BigMul(BigOf(50000), BigOf(1000000))

\* const ethThreshold = 20n * 1000000000000000000n
ethThreshold == BigMul(BigOf(20), Ten18n)

(***************************************************************************)
(* The inputs.  MaxDelta bounds the distance of an amount from a           *)
(* threshold, MaxLogs the logs of one batch, MaxBatch the records given to *)
(* the selector alone, MaxHeight the chain height and MaxOverlap the       *)
(* interval callbacks in progress at one time.                             *)
(***************************************************************************)
MaxDelta == 1

MaxLogs == 2

MaxBatch == 4

MaxHeight == 12

MaxOverlap == 2

Around(t) == {BigAdd(t, BigOf(delta)) : delta \in (0 - MaxDelta)..MaxDelta}

Signed(S) == S \cup {BigNeg(x) : x \in S}

\* uint256 value of a Transfer
ValueInputs ==
    Around(UsdcWhaleThreshold)
        \cup {BigZero,
              BigMul(BigOf(99999), BigOf(1000000)),
              BigMul(BigOf(150000), BigOf(1000000))}

\* int256 amount0 and amount1 of a Swap
Amount0Inputs == Signed(Around(usdcThreshold)) \cup {BigZero}

Amount1Inputs ==
    Signed(Around(ethThreshold)) \cup Signed(Around(HighRollerThreshold))
        \cup {BigZero}

\* The arguments a decodable Swap log of a fetched batch may encode: one below
\* both thresholds, one over the USDC threshold only, one at the ETH threshold.
SwapArgs ==
    { [amount0 |-> BigAdd(usdcThreshold, BigOf(-1)),
       amount1 |-> BigNeg(BigAdd(ethThreshold, BigOf(-1)))],
      [amount0 |-> BigNeg(usdcThreshold),
       amount1 |-> BigMul(BigOf(5), Ten18n)],
      [amount0 |-> BigZero,
       amount1 |-> BigNeg(ethThreshold)] }

\* Number(x) is asked again and again for the same few amounts: the doubles
\* of the inputs are computed once.
NumberInputs ==
    ValueInputs \cup Amount0Inputs \cup Amount1Inputs
        \cup {sw.amount0 : sw \in SwapArgs} \cup {sw.amount1 : sw \in SwapArgs}

Doubles == {<<x, NumberOf(x)>> : x \in NumberInputs}

Number(x) ==
    IF x \in NumberInputs
    THEN (CHOOSE pair \in Doubles : pair[1] = x)[2]
    ELSE NumberOf(x)

AbsBig_Signed(x) == x

\* x < 0n ? -x : x
AbsBig(x) == IF BigLT(x, BigZero) THEN BigNeg(x) ELSE x

\* MODES.USDC_WHALE.filter
UsdcFilter(event, threshold) == BigGE(Number(event.args.value), threshold)

SwapFilter_Strict(event, threshold) ==
    LET abs0 == AbsBig(event.args.amount0)
        abs1 == AbsBig(event.args.amount1)
    IN  BigGT(abs0, usdcThreshold) \/ BigGT(abs1, ethThreshold)

\* MODES.UNISWAP_HIGH_ROLLER.filter
SwapFilter(event, threshold) ==
    LET abs0 == AbsBig(event.args.amount0)
        abs1 == AbsBig(event.args.amount1)
    IN  BigGE(abs0, usdcThreshold) \/ BigGE(abs1, ethThreshold)

Filter(mode, event, threshold) ==
    IF mode = USDC_WHALE THEN UsdcFilter(event, threshold)
    ELSE SwapFilter(event, threshold)

\* MODES.USDC_WHALE.format
UsdcFormat(event) ==
    [amount |-> Number(event.args.value), tx |-> event.transactionHash]

\* MODES.UNISWAP_HIGH_ROLLER.format
SwapFormat(event) ==
    [amount |-> MathAbs(Number(event.args.amount1)),
     tx     |-> event.transactionHash]

Format(mode, event) ==
    IF mode = USDC_WHALE THEN UsdcFormat(event) ELSE SwapFormat(event)

\* const CURRENT_MODE = MODES.UNISWAP_HIGH_ROLLER
CURRENT_MODE == UNISWAP_HIGH_ROLLER

(***************************************************************************)
(* Decode and filter (fetchEvents, lines 142-160).  A raw log carries its  *)
(* data, transactionHash and blockNumber; decodeEventLog throws on a log   *)
(* whose data does not fit the ABI, which is the data Malformed here, and  *)
(* otherwise returns the arguments the data encodes.                       *)
(***************************************************************************)
Malformed == [malformed |-> TRUE]

null == [null |-> TRUE]

DecodeThrows(log) == log.data = Malformed

decodeEventLog(log) == [args |-> log.data]

\* the callback of res.data.logs.map
MapLog(mode, log) ==
    IF DecodeThrows(log) THEN null
    ELSE LET eventWithMeta ==
                 [args            |-> decodeEventLog(log).args,
                  transactionHash |-> log.transactionHash,
                  blockNumber     |-> log.blockNumber]
         IN  IF Filter(mode, eventWithMeta, Threshold(mode))
             THEN Format(mode, eventWithMeta)
             ELSE null

NotNull(t) == t # null

DecodeAndFilter_Aborts(mode, logs) ==
    IF \E i \in 1..Len(logs) : DecodeThrows(logs[i]) THEN << >>
    ELSE SelectSeq([i \in 1..Len(logs) |-> MapLog(mode, logs[i])], NotNull)

\* res.data.logs.map(...).filter(t => t !== null)
DecodeAndFilter(mode, logs) ==
    SelectSeq([i \in 1..Len(logs) |-> MapLog(mode, logs[i])], NotNull)

(***************************************************************************)
(* The selector (startAgent, line 208):                                    *)
(*   events.reduce((prev, current) =>                                      *)
(*       (prev.amount > current.amount) ? prev : current)                  *)
(* With no initial value reduce starts from the first element.             *)
(***************************************************************************)
ReduceStep_Smaller(prev, current) ==
    IF BigLT(prev.amount, current.amount) THEN prev ELSE current

ReduceStep_KeepsTies(prev, current) ==
    IF BigGE(prev.amount, current.amount) THEN prev ELSE current

ReduceStep(prev, current) ==
    IF BigGT(prev.amount, current.amount) THEN prev ELSE current

RECURSIVE ReduceFrom(_, _, _)
ReduceFrom(events, i, prev) ==
    IF i > Len(events) THEN prev
    ELSE ReduceFrom(events, i + 1, ReduceStep(prev, events[i]))

Largest(events) == ReduceFrom(events, 2, events[1])

(***************************************************************************)
(* The agent.                                                              *)
(*                                                                         *)
(* startAgent awaits one call of fetchEvents (call 0, whose result it      *)
(* drops) and then registers the interval callback with setInterval.       *)
(* setInterval does not wait for the promise an async callback returns, so *)
(* a callback may start while earlier ones are still suspended at an       *)
(* await; calls 1..MaxOverlap are the callback invocations in progress.    *)
(***************************************************************************)
\* lastScannedBlock = currentHeight - 10
LOOKBACK == 10

Calls == 0..MaxOverlap

\* The heights client.getHeight() may resolve with.  Every height below
\* LOOKBACK seeds a negative watermark in the same way, so one of them stands
\* for all.
Heights == {0} \cup (LOOKBACK - 1)..MaxHeight

LogData == {Malformed} \cup SwapArgs

\* The batches client.get may return for a query with the given toBlock: the
\* i-th log of a batch carries the transaction hash i.
Batches(toBlock) ==
    UNION { { [i \in 1..n |-> [data            |-> d[i],
                               transactionHash |-> i,
                               blockNumber     |-> toBlock]]
              : d \in [1..n -> LogData] }
            : n \in 0..MaxLogs }

VARIABLES
    lastScannedBlock,  \* let lastScannedBlock = 0
    agent,             \* where startAgent is: "boot", "startup", "interval"
    call,              \* the calls in progress, each suspended at an await
    lastOk,            \* <<toBlock>> of the latest successful range query
    obs,               \* what the last step did
    highest,           \* the largest height client.getHeight() resolved with
    probe,             \* a pure function applied on its own (PureSpec)
    recovered          \* the collaborators fail no more (FairSpec)

vars ==
    <<lastScannedBlock, agent, call, lastOk, obs, highest, probe, recovered>>

\* writes, moved, queried: the call's assignments to lastScannedBlock so far,
\* whether one of them changed its value, and whether it sent a range query.
\* While the callback awaits the inference call, currentHeight keeps the
\* toBlock of the range query its fetchEvents made.
Idle ==
    [pc |-> "idle", currentHeight |-> 0, fromBlock |-> 0, data |-> null,
     writes |-> 0, moved |-> FALSE, queried |-> FALSE]

\* kind: the step; id: the call; returned, result: fetchEvents returned in
\* this step, and what; reported: the argument of analyzeAndReport, when it
\* was called; marker: process.stdout.write(".") ran; issued: the range
\* query sent in this step; answered, logs: the range query that succeeded
\* in this step and the number of logs it brought; batch: those logs; prevOk:
\* lastOk before the step; writes, moved, queried: those of the call when
\* fetchEvents returned; height: the value getLatestHeight() returned in this
\* step.
NoObs ==
    [kind |-> "none", id |-> 0, returned |-> FALSE, result |-> << >>,
     reported |-> null, marker |-> FALSE, issued |-> << >>,
     answered |-> << >>, logs |-> 0, batch |-> << >>, prevOk |-> << >>,
     writes |-> 0, moved |-> FALSE, queried |-> FALSE, height |-> << >>]

NoProbe == [fn |-> "none", input |-> << >>, done |-> FALSE, out |-> FALSE]

AgentInit ==
    /\ lastScannedBlock = 0
    /\ agent = "boot"
    /\ call = [c \in Calls |-> Idle]
    /\ lastOk = << >>
    /\ obs = NoObs
    /\ highest = 0
    /\ recovered = FALSE

Init == AgentInit /\ probe = NoProbe

(***************************************************************************)
(* What the caller does once fetchEvents has returned in call c:           *)
(* startAgent (line 200) drops the result and registers the interval; the  *)
(* interval callback (lines 203-212) reports the largest record or writes  *)
(* the progress marker.  analyzeAndReport runs up to its await of          *)
(* openai.chat.completions.create.                                         *)
(***************************************************************************)
Returned_NoMarker(c, events, seen) ==
    IF c = 0
    THEN /\ agent' = "interval"
         /\ call' = [call EXCEPT ![c] = Idle]
         /\ obs' = [seen EXCEPT !.returned = TRUE, !.result = events]
    ELSE IF Len(events) > 0
    THEN /\ agent' = agent
         /\ call' = [call EXCEPT ![c] =
                        [Idle EXCEPT !.pc = "create",
                                     !.currentHeight = call[c].currentHeight,
                                     !.data = Largest(events)]]
         /\ obs' = [seen EXCEPT !.returned = TRUE, !.result = events,
                                !.reported = Largest(events)]
    ELSE /\ agent' = agent
         /\ call' = [call EXCEPT ![c] = Idle]
         /\ obs' = [seen EXCEPT !.returned = TRUE, !.result = events]

Returned(c, events, seen) ==
    IF c = 0
    THEN /\ agent' = "interval"
         /\ call' = [call EXCEPT ![c] = Idle]
         /\ obs' = [seen EXCEPT !.returned = TRUE, !.result = events]
    ELSE IF Len(events) > 0
    THEN /\ agent' = agent
         /\ call' = [call EXCEPT ![c] =
                        [Idle EXCEPT !.pc = "create",
                                     !.currentHeight = call[c].currentHeight,
                                     !.data = Largest(events)]]
         /\ obs' = [seen EXCEPT !.returned = TRUE, !.result = events,
                                !.reported = Largest(events)]
    ELSE /\ agent' = agent
         /\ call' = [call EXCEPT ![c] = Idle]
         /\ obs' = [seen EXCEPT !.returned = TRUE, !.result = events,
                                !.marker = TRUE]

\* the step of call c, with the call's own record of its writes
Seen(kind, c, own) ==
    [NoObs EXCEPT !.kind = kind, !.id = c, !.writes = own.writes,
                  !.moved = own.moved, !.queried = own.queried]

\* startAgent() up to the await of client.getHeight() inside fetchEvents
StartAgent ==
    /\ agent = "boot"
    /\ agent' = "startup"
    /\ call' = [call EXCEPT ![0] = [Idle EXCEPT !.pc = "getHeight"]]
    /\ obs' = [NoObs EXCEPT !.kind = "start"]
    /\ UNCHANGED <<lastScannedBlock, lastOk, highest, probe, recovered>>

\* the timer fires: the callback runs up to the await of client.getHeight()
IntervalFires(c) ==
    /\ agent = "interval"
    /\ c # 0
    /\ call[c].pc = "idle"
    /\ \A d \in 1..(c - 1) : call[d].pc # "idle"
    /\ call' = [call EXCEPT ![c] = [Idle EXCEPT !.pc = "getHeight"]]
    /\ obs' = [NoObs EXCEPT !.kind = "timer", !.id = c]
    /\ UNCHANGED <<lastScannedBlock, agent, lastOk, highest, probe, recovered>>

\* if (currentHeight === 0 || currentHeight <= lastScannedBlock) return []
NoNewBlocks_Strict(currentHeight, watermark) ==
    currentHeight < watermark

NoNewBlocks_ZeroOnly(currentHeight, watermark) ==
    currentHeight = 0

NoNewBlocks_Always(currentHeight, watermark) == TRUE

NoNewBlocks(currentHeight, watermark) ==
    currentHeight = 0 \/ currentHeight <= watermark

InitialScan_FromGenesis(currentHeight, watermark) == watermark

InitialScan_Ahead(currentHeight, watermark) ==
    IF watermark = 0 THEN currentHeight + LOOKBACK ELSE watermark

\* if (lastScannedBlock === 0) lastScannedBlock = currentHeight - 10
InitialScan(currentHeight, watermark) ==
    IF watermark = 0 THEN currentHeight - LOOKBACK ELSE watermark

\* fetchEvents from the value of getLatestHeight() to its next await
AfterHeight(c, currentHeight, kind) ==
    IF NoNewBlocks(currentHeight, lastScannedBlock)
    THEN /\ Returned(c, << >>, [Seen(kind, c, call[c]) EXCEPT
                                    !.height = <<currentHeight>>])
         /\ UNCHANGED <<lastScannedBlock, lastOk>>
    ELSE LET seeded == InitialScan(currentHeight, lastScannedBlock)
             query  == [fromBlock |-> seeded + 1, toBlock |-> currentHeight]
         IN  /\ lastScannedBlock' = seeded
             /\ call' = [call EXCEPT ![c] =
                    [pc            |-> "get",
                     currentHeight |-> currentHeight,
                     fromBlock     |-> query.fromBlock,
                     data          |-> null,
                     writes        |-> IF lastScannedBlock = 0 THEN 1 ELSE 0,
                     moved         |-> seeded # lastScannedBlock,
                     queried       |-> TRUE]]
             /\ obs' = [Seen(kind, c, call'[c]) EXCEPT
                            !.issued = <<query>>,
                            !.height = <<currentHeight>>]
             /\ UNCHANGED <<agent, lastOk>>

\* client.getHeight() resolves with h
GetHeightResolves(c, h) ==
    /\ call[c].pc = "getHeight"
    /\ AfterHeight(c, h, "height")
    /\ highest' = IF h > highest THEN h ELSE highest
    /\ UNCHANGED <<probe, recovered>>

\* client.getHeight() rejects: getLatestHeight catches and returns 0
GetHeightRejects(c) ==
    /\ call[c].pc = "getHeight"
    /\ AfterHeight(c, 0, "heightRejected")
    /\ UNCHANGED <<highest, probe, recovered>>

\* client.get(query) resolves with the logs
ClientGetResolves(c, logs) ==
    /\ call[c].pc = "get"
    /\ lastScannedBlock' = call[c].currentHeight
    /\ lastOk' = <<call[c].currentHeight>>
    /\ LET own == [call[c] EXCEPT
                      !.writes = @ + 1,
                      !.moved  = @ \/ call[c].currentHeight # lastScannedBlock]
       IN  Returned(c, DecodeAndFilter(CURRENT_MODE, logs),
                    [Seen("get", c, own) EXCEPT
                        !.answered = <<[fromBlock |-> call[c].fromBlock,
                                        toBlock   |-> call[c].currentHeight]>>,
                        !.logs     = Len(logs),
                        !.batch    = logs,
                        !.prevOk   = lastOk])
    /\ UNCHANGED <<highest, probe, recovered>>

\* client.get(query) rejects: the catch of fetchEvents returns []
ClientGetRejects(c) ==
    /\ call[c].pc = "get"
    /\ Returned(c, << >>, Seen("getRejected", c, call[c]))
    /\ UNCHANGED <<lastScannedBlock, lastOk, highest, probe, recovered>>

\* openai.chat.completions.create resolves: the commentary is printed
CreateResolves(c) ==
    /\ call[c].pc = "create"
    /\ call' = [call EXCEPT ![c] = Idle]
    /\ obs' = [NoObs EXCEPT !.kind = "create", !.id = c]
    /\ UNCHANGED <<lastScannedBlock, agent, lastOk, highest, probe, recovered>>

\* openai.chat.completions.create rejects: the catch logs the error
CreateRejects(c) ==
    /\ call[c].pc = "create"
    /\ call' = [call EXCEPT ![c] = Idle]
    /\ obs' = [NoObs EXCEPT !.kind = "createRejected", !.id = c]
    /\ UNCHANGED <<lastScannedBlock, agent, lastOk, highest, probe, recovered>>

Next ==
    \/ StartAgent
    \/ \E c \in Calls : IntervalFires(c)
    \/ \E c \in Calls, h \in Heights : GetHeightResolves(c, h)
    \/ \E c \in Calls : GetHeightRejects(c)
    \/ \E c \in Calls : \E logs \in Batches(call[c].currentHeight) :
           ClientGetResolves(c, logs)
    \/ \E c \in Calls : ClientGetRejects(c)
    \/ \E c \in Calls : CreateResolves(c)
    \/ \E c \in Calls : CreateRejects(c)

Spec == Init /\ [][Next]_vars

(***************************************************************************)
(* The filters and the selector on their own: the agent stays as it was    *)
(* constructed, an input is drawn and the function applied to it.          *)
(***************************************************************************)
FilterInputs ==
    { [mode |-> USDC_WHALE, threshold |-> t,
       event |-> [args |-> [value |-> v],
                  transactionHash |-> 1, blockNumber |-> 1]]
        : v \in ValueInputs, t \in {UsdcWhaleThreshold, HighRollerThreshold} }
    \cup
    { [mode |-> UNISWAP_HIGH_ROLLER, threshold |-> t,
       event |-> [args |-> [amount0 |-> a0, amount1 |-> a1],
                  transactionHash |-> 1, blockNumber |-> 1]]
        : a0 \in Amount0Inputs, a1 \in Amount1Inputs,
          t \in {UsdcWhaleThreshold, HighRollerThreshold} }

\* display records with the amounts 3, 5 and 12 ETH, the i-th with the hash i
SelectInputs ==
    UNION { { [i \in 1..n |-> [amount |-> BigMul(BigOf(eth[i]), Ten18n),
                               tx     |-> i]]
              : eth \in [1..n -> {3, 5, 12}] }
            : n \in 1..MaxBatch }

PureInit ==
    /\ AgentInit
    /\ \/ \E fi \in FilterInputs :
              probe = [fn |-> "filter", input |-> fi, done |-> FALSE,
                       out |-> FALSE]
       \/ \E si \in SelectInputs :
              probe = [fn |-> "select", input |-> si, done |-> FALSE,
                       out |-> null]

ApplyFilter ==
    /\ probe.fn = "filter"
    /\ ~probe.done
    /\ probe' = [probe EXCEPT
                    !.done = TRUE,
                    !.out  = Filter(probe.input.mode, probe.input.event,
                                    probe.input.threshold)]
    /\ UNCHANGED
           <<lastScannedBlock, agent, call, lastOk, obs, highest, recovered>>

ApplySelect ==
    /\ probe.fn = "select"
    /\ ~probe.done
    /\ probe' = [probe EXCEPT !.done = TRUE, !.out = Largest(probe.input)]
    /\ UNCHANGED
           <<lastScannedBlock, agent, call, lastOk, obs, highest, recovered>>

PureNext == ApplyFilter \/ ApplySelect

PureSpec == PureInit /\ [][PureNext]_vars

(***************************************************************************)
(* The agent once its collaborators have recovered.  From the step Recover *)
(* on, client.getHeight() and client.get() reject no more.  The timer of   *)
(* setInterval keeps firing and every pending promise settles: these are   *)
(* the fairness conditions.  The logs of a batch do not bear on the        *)
(* watermark, so the batches here carry at most one log.                   *)
(***************************************************************************)
Rejections == {"heightRejected", "getRejected"}

Recover ==
    /\ ~recovered
    /\ recovered' = TRUE
    /\ obs' = [NoObs EXCEPT !.kind = "recover"]
    /\ UNCHANGED <<lastScannedBlock, agent, call, lastOk, highest, probe>>

\* no rejection of the block source once recovered
Allowed ==
    /\ recovered => obs'.kind \notin Rejections
    /\ obs'.logs <= 1

GetHeightSettles(c) ==
    /\ \/ \E h \in Heights : GetHeightResolves(c, h)
       \/ GetHeightRejects(c)
    /\ Allowed

ClientGetSettles(c) ==
    /\ \/ \E logs \in Batches(call[c].currentHeight) :
              ClientGetResolves(c, logs)
       \/ ClientGetRejects(c)
    /\ Allowed

CreateSettles(c) == CreateResolves(c) \/ CreateRejects(c)

FairNext == (Next /\ Allowed) \/ Recover

Fairness ==
    /\ WF_vars(StartAgent)
    /\ \A c \in Calls :
           /\ WF_vars(IntervalFires(c))
           /\ WF_vars(GetHeightSettles(c))
           /\ WF_vars(ClientGetSettles(c))
           /\ WF_vars(CreateSettles(c))

FairSpec == Init /\ [][FairNext]_vars /\ Fairness


(***************************************************************************)
(* The claims.                                                             *)
(***************************************************************************)

\* C1: across any sequence of steps the watermark lastScannedBlock never
\* decreases: its value after every step is >= its value before the step.
C1_WatermarkNeverDecreases ==
    [][lastScannedBlock' >= lastScannedBlock]_vars

\* C2: of two consecutive successful range queries the later one starts at
\* the toBlock of the earlier one plus 1 (no gap, no overlap).
C2_SuccessfulQueriesAbut ==
    (obs.kind = "get" /\ obs.prevOk # << >>)
        => obs.answered[1].fromBlock = obs.prevOk[1] + 1

C4_QueryFailureLeavesWatermark ==
    obs.kind = "getRejected"
        => /\ obs.returned
           /\ obs.result = << >>
           /\ ~obs.moved

\* C5: the cycle run at startup dispatches: when its range query succeeds and
\* a log decodes and passes the filter, a record of the batch is passed to
\* analyzeAndReport.
C5_StartupCycleReports ==
    (obs.kind = "get" /\ obs.id = 0 /\ obs.result # << >>)
        => /\ obs.reported # null
           /\ \E i \in DOMAIN obs.result : obs.reported = obs.result[i]

\* C6: ticks never overlap: at most one call is in progress at any time.
C6_TicksNeverOverlap ==
    Cardinality({c \in Calls : call[c].pc # "idle"}) <= 1

C8_ReportsMaximum ==
    (obs.returned /\ obs.id # 0 /\ obs.result # << >>)
        => /\ \E i \in DOMAIN obs.result : obs.reported = obs.result[i]
           /\ \A i \in DOMAIN obs.result :
                  BigGE(obs.reported.amount, obs.result[i].amount)

\* a tick reported the first of two records, the one with the greater amount
C8_Witness ==
    /\ obs.returned
    /\ obs.id # 0
    /\ Len(obs.result) = 2
    /\ BigGT(obs.result[1].amount, obs.result[2].amount)
    /\ obs.reported = obs.result[1]

IsMaximum(events, i) ==
    \A j \in DOMAIN events : BigGE(events[i].amount, events[j].amount)

C11_SwapFilterIgnoresSigns ==
    (probe.fn = "filter" /\ probe.done
        /\ probe.input.mode = UNISWAP_HIGH_ROLLER)
        => LET event == probe.input.event
               a0    == event.args.amount0
               a1    == event.args.amount1
               With(x0, x1) ==
                   [event EXCEPT !.args = [amount0 |-> x0, amount1 |-> x1]]
               Kept(x0, x1) ==
                   SwapFilter(With(x0, x1), probe.input.threshold)
           IN  /\ Kept(BigNeg(a0), a1) = probe.out
               /\ Kept(a0, BigNeg(a1)) = probe.out
               /\ Kept(BigNeg(a0), BigNeg(a1)) = probe.out
               /\ MagGE(a0.mag, <<0, 0, 0, 50>>)
                      => \A x1 \in Amount1Inputs : Kept(a0, x1)

\* a swap of -50000 * 10^6 against an amount1 below 20 * 10^18 was kept
C11_Witness ==
    /\ probe.fn = "filter"
    /\ probe.done
    /\ probe.input.mode = UNISWAP_HIGH_ROLLER
    /\ probe.input.event.args.amount0 = BigNeg(usdcThreshold)
    /\ probe.input.event.args.amount1.mag = <<999, 999, 999, 999, 999, 999, 19>>
    /\ probe.out

\* C12: within one batch a log whose decoding fails contributes no record
\* and does not affect the other logs: the output of the call holds one
\* record for every log that decodes and passes the filter, the formatted
\* record of that log, and no other, in the order of the logs; and the
\* watermark is at the queried toBlock.
C12_DecodeFailureIsolated ==
    obs.kind = "get"
        => LET Passes(log) ==
                   /\ log.data # Malformed
                   /\ \/ MagGE(log.data.amount0.mag, <<0, 0, 0, 50>>)
                      \/ MagGE(log.data.amount1.mag, <<0, 0, 0, 0, 0, 0, 20>>)
               Of(i) == {k \in DOMAIN obs.result : obs.result[k].tx = i}
           IN  /\ \A i \in DOMAIN obs.batch :
                      IF Passes(obs.batch[i])
                      THEN /\ Cardinality(Of(i)) = 1
                           /\ \A k \in Of(i) :
                                  obs.result[k].amount =
                                      MathAbs(Number(obs.batch[i].data.amount1))
                      ELSE Of(i) = {}
               /\ \A k \in DOMAIN obs.result :
                      obs.result[k].tx \in DOMAIN obs.batch
               /\ \A k, l \in DOMAIN obs.result :
                      k < l => obs.result[k].tx < obs.result[l].tx
               /\ lastScannedBlock = obs.answered[1].toBlock

\* the first log of a batch failed to decode, the second one qualified and
\* is the only record of the output
C12_Witness ==
    /\ obs.kind = "get"
    /\ Len(obs.batch) = 2
    /\ obs.batch[1].data = Malformed
    /\ Len(obs.result) = 1
    /\ obs.result[1].tx = 2
    /\ obs.moved

\* C13, the part on the watermark: when the inference call of a tick fails,
\* the watermark is at the value set by that tick's successful range query,
\* the toBlock of that query.
C13_InferenceFailureKeepsWatermark ==
    [][\A c \in Calls :
           (call[c].pc = "create" /\ obs'.kind = "createRejected"
               /\ obs'.id = c)
               => lastScannedBlock' = call[c].currentHeight]_vars

C15_SeedFlooredAtZero ==
    /\ lastScannedBlock >= 0
    /\ obs.issued # << >> => obs.issued[1].fromBlock >= 1

\* C16: when the watermark is initialized to w and the height request returns
\* H <= w, the call returns the empty result in that step, has issued no
\* range query, and the step leaves the watermark equal to w.
C16_StalledHeightChangesNothing ==
    [][(obs'.kind = "height" /\ lastScannedBlock # 0
           /\ obs'.height[1] <= lastScannedBlock)
          => /\ obs'.returned
             /\ obs'.result = << >>
             /\ obs'.issued = << >>
             /\ ~obs'.queried
             /\ obs'.writes = 0
             /\ lastScannedBlock' = lastScannedBlock]_vars

\* an interval tick obtained the height 9 with the watermark at 11
C16_Witness ==
    /\ obs.kind = "height"
    /\ obs.id # 0
    /\ obs.height = <<9>>
    /\ lastScannedBlock = 11
    /\ obs.returned
    /\ ~obs.queried

\* C17: a call whose range query succeeds has assigned the watermark exactly
\* once when it returns, and a call whose height request or range query
\* fails has not assigned it at all; the first call from the uninitialized
\* state included.
C17_OneWritePerSuccess ==
    /\ obs.kind = "get" => obs.writes = 1
    /\ obs.kind \in {"heightRejected", "getRejected"} => obs.writes = 0

\* C18: the filter decision is made against the threshold attribute passed to
\* the filter: in the swap mode, with its threshold attribute 10 * 10^18, an
\* event with |amount1| >= 10 * 10^18 is kept.
C18_FilterUsesThresholdAttribute ==
    (probe.fn = "filter" /\ probe.done
        /\ probe.input.mode = UNISWAP_HIGH_ROLLER
        /\ probe.input.threshold = Threshold(UNISWAP_HIGH_ROLLER)
        /\ MagGE(probe.input.event.args.amount1.mag, <<0, 0, 0, 0, 0, 0, 10>>))
        => probe.out

\* C19: every range query issued has fromBlock <= toBlock, its toBlock is the
\* height the height request of the same call returned, and in every
\* reachable state the watermark is <= the largest height the height request
\* has returned so far.
C19_RangeWellFormed ==
    /\ obs.issued # << >>
           => /\ obs.issued[1].fromBlock <= obs.issued[1].toBlock
              /\ obs.issued[1].toBlock = obs.height[1]
    /\ lastScannedBlock <= highest

\* a query for the single block 12 was issued with the watermark at 11
C19_Witness ==
    /\ obs.issued = <<[fromBlock |-> 12, toBlock |-> 12]>>
    /\ obs.height = <<12>>
    /\ lastScannedBlock = 11
    /\ highest = 12

\* C20: progress under recovery.  Once the height request and the range
\* query fail no more, whenever the height request returns a positive height
\* H, the watermark eventually becomes >= H (under fair scheduling).
C20_ProgressUnderRecovery ==
    \A h \in Heights \ {0} :
        (recovered /\ obs.kind = "height" /\ obs.height = <<h>>)
            ~> (lastScannedBlock >= h)

\* after the recovery a tick that did not seed the watermark itself queried
\* the blocks 3 to 12 and brought the watermark to 12
C20_Witness ==
    /\ recovered
    /\ obs.kind = "get"
    /\ obs.id # 0
    /\ obs.writes = 1
    /\ obs.answered = <<[fromBlock |-> 3, toBlock |-> 12]>>
    /\ lastScannedBlock = 12

=============================================================================
